---- MODULE Spec2Model ----
(***************************************************************************)
(* The Veriform message parser (go/parser.go): Parser.Parse, Parser.Finish *)
(* and the helpers parseVarint, parseFieldPrefix, parseUint64,             *)
(* parseLengthPrefixedData, parseMessage and parseBytes, as a state        *)
(* machine over the parser's nesting stack p.remaining, the Go call stack  *)
(* of Parse activations, and the trace of builder callbacks.               *)
(***************************************************************************)
EXTENDS Integers, Sequences, FiniteSets, TLC

(***************************************************************************)
(* Bounds.  The source sets DefaultMaxLength = 1024 and DefaultMaxDepth =  *)
(* 8 (parser.go:12, parser.go:15); the model scales both down so that      *)
(* messages at, below and above each limit are enumerated exhaustively.    *)
(***************************************************************************)
DefaultMaxLength == 4

DefaultMaxDepth == 2

\* Work a caller may hand to one parser: every Parse call costs one unit,
\* plus the length of its message when the parser accepts it for reading
\* (an oversized message is refused unread).
MaxWork == 6

\* How far over maxLength the oversized messages of a caller go.
MaxExcess == 2

\* Longest varint the codec accepts, in bytes (scaled down with the word).
MaxVarintLen == 2

\* The bytes every caller's messages are made of.  As varints 0, 2, 3 and
\* 10 are one-byte values and 128 is a continuation byte.  As tags:
\* 0 = (id 0, wire type 0), 2 = (id 0, wire type 2), 3 = (id 0, wire type
\* 3), 10 = (id 1, wire type 2), <<128, 1>> = (id 16, wire type 0).
CommonBytes == {0, 2, 3, 10, 128}

\* One more byte per caller: a tag of one of the wire types the parser does
\* not know (1, 4, 5, 6, 7), which is also a length or a value.
UnknownTags == {1, 4, 5, 6, 7}

\* Or, for one caller, the byte that closes the longest varint with its top
\* bit set: <<128, 64>> is the length 2^13 when varints have two bytes.
TopBitBytes == {64}

\* The machine word: uint64 and int scaled to the longest varint.
UintBits == 7 * MaxVarintLen

RECURSIVE Pow2(_)
Pow2(n) == IF n = 0 THEN 1 ELSE 2 * Pow2(n - 1)

\* Go's int(x) of an unsigned word x: two's complement reinterpretation.
ToInt(x) == IF x >= Pow2(UintBits - 1) THEN x - Pow2(UintBits) ELSE x

\* Longest message a caller hands to Parse.
MaxMessage == DefaultMaxLength + MaxExcess

\* The filler byte of oversized messages; their bytes are never read.
Padding(n) == [i \in 1..n |-> 0]

\* All byte strings of length n.
BytesOfLen(A, n) == [1..n -> A]

Drop(s, n) == SubSeq(s, n + 1, Len(s))

Take(s, n) == SubSeq(s, 1, n)

Top(s) == s[Len(s)]

Pop(s) == SubSeq(s, 1, Len(s) - 1)

(***************************************************************************)
(* Errors.  kind names the error of the taxonomy; a and b carry the        *)
(* numbers the message reports.                                            *)
(***************************************************************************)
Err(kind, a, b) == [kind |-> kind, a |-> a, b |-> b]

Nil == Err("nil", 0, 0)

\* A Go run-time panic: index out of range (line 93).
Panic == Err("panic", 0, 0)

\* A Go run-time panic: slice bounds out of range (line 144).
SliceBoundsPanic == Err("panic", 1, 0)

(***************************************************************************)
(* Builder callbacks, as events of the trace.                              *)
(***************************************************************************)
EvUint64(fieldID, value) == [cb |-> "Uint64", id |-> fieldID, value |-> value, data |-> <<>>]

EvBytes(fieldID, data) == [cb |-> "Bytes", id |-> fieldID, value |-> 0, data |-> data]

EvBeginNested == [cb |-> "BeginNested", id |-> 0, value |-> 0, data |-> <<>>]

EvEndNested(fieldID) == [cb |-> "EndNested", id |-> fieldID, value |-> 0, data |-> <<>>]

(***************************************************************************)
(* The varint codec (external to parser.go).  A varint is a run of         *)
(* continuation bytes (high bit set) closed by a terminating byte; the     *)
(* groups of 7 bits are little-endian.  It fails when the input is         *)
(* exhausted before a terminating byte, or when the varint is longer than  *)
(* MaxVarintLen bytes.  n is the number of bytes consumed.                 *)
(***************************************************************************)
RECURSIVE ContinuationRun(_)
ContinuationRun(s) ==
  IF s = <<>> \/ s[1] < 128 THEN 0 ELSE 1 + ContinuationRun(Tail(s))

RECURSIVE VarintValue(_, _)
VarintValue(s, n) ==
  IF n = 0 THEN 0 ELSE (s[1] % 128) + 128 * VarintValue(Tail(s), n - 1)

DecodeVarint(s) ==
  LET k == ContinuationRun(s)
  IN IF k + 1 > Len(s) \/ k + 1 > MaxVarintLen
     THEN [err |-> Err("VarintDecodeError", 0, 0), value |-> 0, n |-> 0]
     ELSE [err |-> Nil, value |-> VarintValue(s, k + 1) % Pow2(UintBits), n |-> k + 1]

(***************************************************************************)
(* The parser's configuration, fixed by NewParser.                         *)
(***************************************************************************)
maxLength == DefaultMaxLength

maxDepth == DefaultMaxDepth

\* Oversized with the limit itself refused.
OversizedAtLimit(msg) == Len(msg) >= ToInt(maxLength)

\* Parse, line 44: the message is longer than the parser accepts.
Oversized(msg) == Len(msg) > ToInt(maxLength)

\* DepthExceeded checked one level late.
DepthExceededLate(rem) == Len(rem) > ToInt(maxDepth)

\* Parse, line 48: the nesting stack is as deep as the parser allows.
DepthExceeded(rem) == Len(rem) >= ToInt(maxDepth)

(***************************************************************************)
(* The helpers of parser.go as operators on the nesting stack rem.  Each   *)
(* returns the stack it leaves behind and its results.                     *)
(***************************************************************************)

\* parseVarint that leaves the view it reads on the stack.
parseVarintNoPop(rem) ==
  IF rem = <<>>
  THEN [err |-> Panic, value |-> 0, rest |-> <<>>, rem |-> rem]
  ELSE LET slice == Top(rem)
           d == DecodeVarint(slice)
       IN [err |-> d.err, value |-> d.value,
           rest |-> IF d.err = Nil THEN Drop(slice, d.n) ELSE <<>>,
           rem |-> rem]

\* parseVarint: pop the top view, decode a varint from it; the view is not
\* pushed back (the callers do that, and only on success).
parseVarint(rem) ==
  IF rem = <<>>
  THEN [err |-> Panic, value |-> 0, rest |-> <<>>, rem |-> rem]
  ELSE LET slice == Top(rem)
           d == DecodeVarint(slice)
       IN [err |-> d.err, value |-> d.value,
           rest |-> IF d.err = Nil THEN Drop(slice, d.n) ELSE <<>>,
           rem |-> Pop(rem)]

\* parseFieldPrefix that does not push the rest of the view back.
parseFieldPrefixNoPush(rem) ==
  LET v == parseVarint(rem)
  IN IF v.err # Nil
     THEN [err |-> v.err, fieldID |-> 0, wireType |-> 0, rem |-> v.rem]
     ELSE [err |-> Nil, fieldID |-> v.value \div 8, wireType |-> v.value % 8,
           rem |-> v.rem]

\* parseFieldPrefix that takes the whole tag for the field ID.
parseFieldPrefixNoShift(rem) ==
  LET v == parseVarint(rem)
  IN IF v.err # Nil
     THEN [err |-> v.err, fieldID |-> 0, wireType |-> 0, rem |-> v.rem]
     ELSE [err |-> Nil, fieldID |-> v.value, wireType |-> v.value % 8,
           rem |-> Append(v.rem, v.rest)]

\* parseFieldPrefix that masks the wire type with 0x3.
parseFieldPrefixMask3(rem) ==
  LET v == parseVarint(rem)
  IN IF v.err # Nil
     THEN [err |-> v.err, fieldID |-> 0, wireType |-> 0, rem |-> v.rem]
     ELSE [err |-> Nil, fieldID |-> v.value \div 8, wireType |-> v.value % 4,
           rem |-> Append(v.rem, v.rest)]

\* parseFieldPrefix: the tag varint, split into field ID and wire type.
parseFieldPrefix(rem) ==
  LET v == parseVarint(rem)
  IN IF v.err # Nil
     THEN [err |-> v.err, fieldID |-> 0, wireType |-> 0, rem |-> v.rem]
     ELSE [err |-> Nil, fieldID |-> v.value \div 8, wireType |-> v.value % 8,
           rem |-> Append(v.rem, v.rest)]

\* parseUint64: a varint value, then the Uint64 callback.
parseUint64(rem, fieldID) ==
  LET v == parseVarint(rem)
  IN IF v.err # Nil
     THEN [err |-> v.err, rem |-> v.rem, events |-> <<>>]
     ELSE [err |-> Nil, rem |-> Append(v.rem, v.rest),
           events |-> <<EvUint64(fieldID, v.value)>>]

\* parseLengthPrefixedData that pushes back the whole view, payload included.
parseLengthPrefixedDataKeepsPayload(rem) ==
  LET v == parseVarint(rem)
  IN IF v.err # Nil
     THEN [err |-> v.err, result |-> <<>>, rem |-> v.rem]
     ELSE IF Len(v.rest) < ToInt(v.value)
     THEN [err |-> Err("Truncated", v.value, Len(v.rest)), result |-> <<>>, rem |-> v.rem]
     ELSE IF v.value > Len(v.rest)
     THEN [err |-> SliceBoundsPanic, result |-> <<>>, rem |-> v.rem]
     ELSE [err |-> Nil, result |-> Take(v.rest, v.value),
           rem |-> Append(v.rem, v.rest)]

\* parseLengthPrefixedData that refuses a payload filling the view exactly.
parseLengthPrefixedDataStrict(rem) ==
  LET v == parseVarint(rem)
  IN IF v.err # Nil
     THEN [err |-> v.err, result |-> <<>>, rem |-> v.rem]
     ELSE IF Len(v.rest) <= ToInt(v.value)
     THEN [err |-> Err("Truncated", v.value, Len(v.rest)), result |-> <<>>, rem |-> v.rem]
     ELSE IF v.value > Len(v.rest)
     THEN [err |-> SliceBoundsPanic, result |-> <<>>, rem |-> v.rem]
     ELSE [err |-> Nil, result |-> Take(v.rest, v.value),
           rem |-> Append(v.rem, Drop(v.rest, v.value))]

\* parseLengthPrefixedData: a varint length, the check against the bytes
\* left, and the split of the view into the payload and the rest.
parseLengthPrefixedData(rem) ==
  LET v == parseVarint(rem)
  IN IF v.err # Nil
     THEN [err |-> v.err, result |-> <<>>, rem |-> v.rem]
     ELSE IF Len(v.rest) < ToInt(v.value)
     THEN [err |-> Err("Truncated", v.value, Len(v.rest)), result |-> <<>>, rem |-> v.rem]
     ELSE IF v.value > Len(v.rest)
     THEN [err |-> SliceBoundsPanic, result |-> <<>>, rem |-> v.rem]
     ELSE [err |-> Nil, result |-> Take(v.rest, v.value),
           rem |-> Append(v.rem, Drop(v.rest, v.value))]

\* parseBytes: a length-prefixed payload, then the Bytes callback.
parseBytes(rem, fieldID) ==
  LET d == parseLengthPrefixedData(rem)
  IN IF d.err # Nil
     THEN [err |-> d.err, rem |-> d.rem, events |-> <<>>]
     ELSE [err |-> Nil, rem |-> d.rem, events |-> <<EvBytes(fieldID, d.result)>>]

(***************************************************************************)
(* State.                                                                  *)
(***************************************************************************)
VARIABLES
  remaining,   \* p.remaining: the nesting stack of byte views
  frames,      \* the Parse activations in flight, outermost first
  trace,       \* builder callbacks invoked by the current top-level Parse
  message,     \* the argument of the current (or last) top-level Parse
  err,         \* what the last top-level Parse returned (Nil while running)
  calls,       \* number of top-level Parse calls made so far
  work,        \* work handed to the parser so far
  finishRet,   \* what the last Finish returned: "none", "product" or an error kind
  builderFinish, \* callbacks.Finish() invocations made by the last Finish call
  base,        \* the nesting stack as it was when the top-level Parse was called
  alphabet     \* the bytes this caller's messages are made of

vars == <<remaining, frames, trace, message, err, calls, work, finishRet, builderFinish,
          base, alphabet>>

Frame(pc, msg, fieldID) == [pc |-> pc, message |-> msg, fieldID |-> fieldID]

Idle == frames = <<>> /\ err.kind # "panic"

\* NewParser: an empty nesting stack.
Init ==
  /\ remaining = <<>>
  /\ frames = <<>>
  /\ trace = <<>>
  /\ message = <<>>
  /\ err = Nil
  /\ calls = 0
  /\ work = 0
  /\ finishRet = "none"
  /\ builderFinish = 0
  /\ base = <<>>
  /\ \E w \in UnknownTags \cup TopBitBytes : alphabet = CommonBytes \cup {w}

\* Unwind in which parseMessage drops the error of the nested Parse and the
\* enclosing loop goes on.
UnwindSwallowed(e, rem, events) ==
  /\ remaining' = rem
  /\ trace' = trace \o events
  /\ IF Len(frames) > 1 /\ Top(frames).pc = "loop"
     THEN /\ frames' = Append(SubSeq(frames, 1, Len(frames) - 2),
                              Frame("loop", frames[Len(frames) - 1].message,
                                    frames[Len(frames) - 1].fieldID))
          /\ err' = Nil
     ELSE /\ frames' = <<>>
          /\ err' = e
  /\ UNCHANGED <<message, calls, work, finishRet, builderFinish, base, alphabet>>

\* `return err` at any depth: every enclosing parseMessage and Parse returns
\* the same error at once, leaving the stack as it is.
Unwind(e, rem, events) ==
  /\ remaining' = rem
  /\ frames' = <<>>
  /\ trace' = trace \o events
  /\ err' = e
  /\ UNCHANGED <<message, calls, work, finishRet, builderFinish, base, alphabet>>

\* The caller invokes p.Parse(msg) on an idle parser.
Call(msg, cost) ==
  /\ frames' = <<Frame("entry", msg, 0)>>
  /\ message' = msg
  /\ trace' = <<>>
  /\ err' = Nil
  /\ calls' = calls + 1
  /\ work' = work + cost
  /\ finishRet' = "none"
  /\ builderFinish' = 0
  /\ base' = remaining
  /\ UNCHANGED <<remaining, alphabet>>

CallParse ==
  /\ Idle
  /\ \/ \E n \in 0..DefaultMaxLength :
          /\ work + n + 1 <= MaxWork
          /\ \E msg \in BytesOfLen(alphabet, n) : Call(msg, n + 1)
     \/ \E n \in (DefaultMaxLength + 1)..MaxMessage :
          /\ work + 1 <= MaxWork
          /\ Call(Padding(n), 1)

\* ParseEnter with the depth check made before the size check.
ParseEnterDepthFirst ==
  /\ frames # <<>>
  /\ Top(frames).pc = "entry"
  /\ LET msg == Top(frames).message
     IN IF DepthExceeded(remaining)
        THEN Unwind(Err("MaxDepthExceeded", maxDepth, 0), remaining, <<>>)
        ELSE IF Oversized(msg)
        THEN Unwind(Err("OversizedMessage", Len(msg), maxLength), remaining, <<>>)
        ELSE /\ remaining' = Append(remaining, msg)
             /\ frames' = Append(Pop(frames), Frame("loop", msg, Top(frames).fieldID))
             /\ UNCHANGED <<trace, message, err, calls, work, finishRet, builderFinish, base, alphabet>>

\* Parse, lines 44-52: the size check, the depth check, the push.
ParseEnter ==
  /\ frames # <<>>
  /\ Top(frames).pc = "entry"
  /\ LET msg == Top(frames).message
     IN IF Oversized(msg)
        THEN Unwind(Err("OversizedMessage", Len(msg), maxLength), remaining, <<>>)
        ELSE IF DepthExceeded(remaining)
        THEN Unwind(Err("MaxDepthExceeded", maxDepth, 0), remaining, <<>>)
        ELSE /\ remaining' = Append(remaining, msg)
             /\ frames' = Append(Pop(frames), Frame("loop", msg, Top(frames).fieldID))
             /\ UNCHANGED <<trace, message, err, calls, work, finishRet, builderFinish, base, alphabet>>

\* The loop condition of line 54 holds: the top view is not empty.
InLoop ==
  /\ frames # <<>>
  /\ Top(frames).pc = "loop"
  /\ remaining # <<>>
  /\ Top(remaining) # <<>>

Continue(rem, events) ==
  /\ remaining' = rem
  /\ trace' = trace \o events
  /\ UNCHANGED <<frames, message, err, calls, work, finishRet, builderFinish, base, alphabet>>

\* Lines 55-58: the field prefix does not decode.
FieldPrefixFails ==
  /\ InLoop
  /\ LET f == parseFieldPrefix(remaining)
     IN /\ f.err # Nil
        /\ Unwind(f.err, f.rem, <<>>)

\* Lines 61-62: wire type 0.
FieldUint64 ==
  /\ InLoop
  /\ LET f == parseFieldPrefix(remaining)
     IN /\ f.err = Nil
        /\ f.wireType = 0
        /\ LET r == parseUint64(f.rem, f.fieldID)
           IN IF r.err # Nil
              THEN Unwind(r.err, r.rem, r.events)
              ELSE Continue(r.rem, r.events)

\* Lines 65-66: wire type 3.
FieldBytes ==
  /\ InLoop
  /\ LET f == parseFieldPrefix(remaining)
     IN /\ f.err = Nil
        /\ f.wireType = 3
        /\ LET r == parseBytes(f.rem, f.fieldID)
           IN IF r.err # Nil
              THEN Unwind(r.err, r.rem, r.events)
              ELSE Continue(r.rem, r.events)

\* Lines 63-64 and parseMessage up to its call of Parse (lines 152-159):
\* BeginNested, the length-prefixed payload, the recursive call.
FieldMessage ==
  /\ InLoop
  /\ LET f == parseFieldPrefix(remaining)
     IN /\ f.err = Nil
        /\ f.wireType = 2
        /\ LET d == parseLengthPrefixedData(f.rem)
           IN IF d.err # Nil
              THEN Unwind(d.err, d.rem, <<EvBeginNested>>)
              ELSE /\ remaining' = d.rem
                   /\ trace' = Append(trace, EvBeginNested)
                   /\ frames' = Pop(frames)
                                  \o <<Frame("parseMessage", Top(frames).message, f.fieldID),
                                       Frame("entry", d.result, 0)>>
                   /\ UNCHANGED <<message, err, calls, work, finishRet, builderFinish, base, alphabet>>

\* Lines 67-68: any other wire type.
FieldUnknown ==
  /\ InLoop
  /\ LET f == parseFieldPrefix(remaining)
     IN /\ f.err = Nil
        /\ f.wireType \notin {0, 2, 3}
        /\ Unwind(Err("UnknownWireType", f.wireType, 0), f.rem, <<>>)

\* ParseReturn that returns into parseMessage without the EndNested callback.
ParseReturnNoEnd ==
  /\ frames # <<>>
  /\ Top(frames).pc = "loop"
  /\ remaining # <<>>
  /\ Top(remaining) = <<>>
  /\ remaining' = Pop(remaining)
  /\ IF Len(frames) = 1
     THEN frames' = <<>>
     ELSE LET caller == frames[Len(frames) - 1]
          IN frames' = Append(SubSeq(frames, 1, Len(frames) - 2),
                              Frame("loop", caller.message, caller.fieldID))
  /\ UNCHANGED <<trace, message, err, calls, work, finishRet, builderFinish, base, alphabet>>

\* ParseReturn that returns without popping its level.
ParseReturnNoPop ==
  /\ frames # <<>>
  /\ Top(frames).pc = "loop"
  /\ remaining # <<>>
  /\ Top(remaining) = <<>>
  /\ IF Len(frames) = 1
     THEN /\ frames' = <<>>
          /\ trace' = trace
     ELSE LET caller == frames[Len(frames) - 1]
          IN /\ frames' = Append(SubSeq(frames, 1, Len(frames) - 2),
                                 Frame("loop", caller.message, caller.fieldID))
             /\ trace' = Append(trace, EvEndNested(caller.fieldID))
  /\ UNCHANGED <<remaining, message, err, calls, work, finishRet, builderFinish, base, alphabet>>

\* The loop condition fails: lines 76-78 pop the level and return nil; a
\* nested Parse returns into parseMessage, which calls EndNested (164-165).
ParseReturn ==
  /\ frames # <<>>
  /\ Top(frames).pc = "loop"
  /\ remaining # <<>>
  /\ Top(remaining) = <<>>
  /\ remaining' = Pop(remaining)
  /\ IF Len(frames) = 1
     THEN /\ frames' = <<>>
          /\ trace' = trace
     ELSE LET caller == frames[Len(frames) - 1]
          IN /\ frames' = Append(SubSeq(frames, 1, Len(frames) - 2),
                                 Frame("loop", caller.message, caller.fieldID))
             /\ trace' = Append(trace, EvEndNested(caller.fieldID))
  /\ UNCHANGED <<message, err, calls, work, finishRet, builderFinish, base, alphabet>>

\* Finish with its check of the nesting stack inverted.
FinishInverted ==
  /\ Idle
  /\ IF Len(remaining) = 0
     THEN /\ finishRet' = "IncompleteParse"
          /\ builderFinish' = 0
     ELSE /\ finishRet' = "product"
          /\ builderFinish' = 1
  /\ UNCHANGED <<remaining, frames, trace, message, err, calls, work, base, alphabet>>

\* Finish without its check of the nesting stack.
FinishUnchecked ==
  /\ Idle
  /\ finishRet' = "product"
  /\ builderFinish' = 1
  /\ UNCHANGED <<remaining, frames, trace, message, err, calls, work, base, alphabet>>

\* Finish, lines 82-88.
Finish ==
  /\ Idle
  /\ IF Len(remaining) # 0
     THEN /\ finishRet' = "IncompleteParse"
          /\ builderFinish' = 0
     ELSE /\ finishRet' = "product"
          /\ builderFinish' = 1
  /\ UNCHANGED <<remaining, frames, trace, message, err, calls, work, base, alphabet>>

Next ==
  \/ CallParse
  \/ ParseEnter
  \/ FieldPrefixFails
  \/ FieldUint64
  \/ FieldBytes
  \/ FieldMessage
  \/ FieldUnknown
  \/ ParseReturn
  \/ Finish

Spec == Init /\ [][Next]_vars

(***************************************************************************)
(* The wire format, read off the bytes without a parser: a message is the  *)
(* concatenation of its fields; a field is a varint tag = (id << 3) | wire *)
(* type followed by a varint value (wire type 0), or by a varint length L  *)
(* and exactly L bytes that are a nested message (wire type 2) or opaque   *)
(* (wire type 3).  Wire(msg) tells whether msg is such an encoding, the    *)
(* events of its fields in document order, and how many message levels it  *)
(* nests.                                                                  *)
(***************************************************************************)
WireInvalid == [ok |-> FALSE, events |-> <<>>, depth |-> 0]

WireJoin(events, depth, r) ==
  IF r.ok
  THEN [ok |-> TRUE, events |-> events \o r.events,
        depth |-> IF depth > r.depth THEN depth ELSE r.depth]
  ELSE WireInvalid

RECURSIVE Wire(_)
Wire(msg) ==
  IF msg = <<>> THEN [ok |-> TRUE, events |-> <<>>, depth |-> 1]
  ELSE
    LET t == DecodeVarint(msg)
        id == t.value \div 8
        wt == t.value % 8
        body == Drop(msg, t.n)
        v == DecodeVarint(body)
        after == Drop(body, v.n)
    IN IF t.err # Nil \/ wt \notin {0, 2, 3} \/ v.err # Nil THEN WireInvalid
       ELSE IF wt = 0 THEN WireJoin(<<EvUint64(id, v.value)>>, 1, Wire(after))
       ELSE IF v.value > Len(after) THEN WireInvalid
       ELSE LET payload == Take(after, v.value)
                rest == Drop(after, v.value)
            IN IF wt = 3 THEN WireJoin(<<EvBytes(id, payload)>>, 1, Wire(rest))
               ELSE LET n == Wire(payload)
                    IN IF ~n.ok THEN WireInvalid
                       ELSE WireJoin(<<EvBeginNested>> \o n.events \o <<EvEndNested(id)>>,
                                     1 + n.depth, Wire(rest))

\* msg is a valid encoding within the parser's bounds.
WithinBounds(msg) ==
  /\ Len(msg) <= maxLength
  /\ Wire(msg).ok
  /\ Wire(msg).depth <= maxDepth

\* The top-level Parse has returned.
Returned == frames = <<>> /\ calls >= 1

\* The first Parse of a fresh parser has returned.
FirstReturned == frames = <<>> /\ calls = 1

(***************************************************************************)
(* C1: for every valid encoding within the bounds, the first Parse of a    *)
(* fresh parser succeeds and the callbacks it made are exactly the         *)
(* document-order events of the encoded fields, each once.                 *)
(***************************************************************************)
C1_DocumentOrder ==
  (FirstReturned /\ WithinBounds(message))
    => (err = Nil /\ trace = Wire(message).events)

C1_Witness ==
  /\ FirstReturned
  /\ message = <<10, 2, 0, 3>>
  /\ err = Nil
  /\ trace = <<EvBeginNested, EvUint64(0, 3), EvEndNested(1)>>

(***************************************************************************)
(* C2: a well-formed message nesting exactly maxDepth levels parses; one   *)
(* nesting maxDepth + 1 levels fails with MaxDepthExceeded, and the stack  *)
(* then holds maxDepth views: the level refused was never pushed.          *)
(***************************************************************************)
C2_DepthLimit ==
  (FirstReturned /\ Len(message) <= maxLength /\ Wire(message).ok)
    => /\ (Wire(message).depth = maxDepth => err = Nil)
       /\ (Wire(message).depth = maxDepth + 1
             => err = Err("MaxDepthExceeded", maxDepth, 0) /\ Len(remaining) = maxDepth)

C2_Witness ==
  /\ FirstReturned
  /\ Wire(message).ok
  /\ Wire(message).depth = maxDepth + 1
  /\ err.kind = "MaxDepthExceeded"

(***************************************************************************)
(* C3: in every reachable state, whatever Parse and Finish calls were      *)
(* made, the nesting stack holds at most maxDepth views.                   *)
(***************************************************************************)
C3_StackBounded == Len(remaining) <= maxDepth

C3_Witness ==
  /\ calls = 3
  /\ err.kind = "MaxDepthExceeded"
  /\ Len(remaining) = maxDepth

(***************************************************************************)
(* C4: a Parse of more than maxLength bytes returns OversizedMessage; a    *)
(* valid message of exactly maxLength bytes, parsed on an empty stack,     *)
(* succeeds; and every Parse activation past its entry checks, top-level   *)
(* or nested, has a message of at most maxLength bytes.                    *)
(***************************************************************************)
C4_SizeLimit ==
  /\ (Returned /\ Len(message) > maxLength)
       => err = Err("OversizedMessage", Len(message), maxLength)
  /\ (Returned /\ base = <<>> /\ Len(message) = maxLength /\ WithinBounds(message))
       => err = Nil
  /\ \A i \in DOMAIN frames :
       frames[i].pc # "entry" => Len(frames[i].message) <= maxLength

C4_Witness ==
  /\ Returned
  /\ Len(message) = maxLength
  /\ WithinBounds(message)
  /\ Len(trace) >= 2
  /\ err = Nil

(***************************************************************************)
(* C5: after the first Parse of a fresh parser returned an error, Finish   *)
(* returns IncompleteParse and no product.                                 *)
(***************************************************************************)
C5_NoProductAfterError ==
  (FirstReturned /\ err # Nil /\ err.kind # "panic" /\ finishRet # "none")
    => (finishRet = "IncompleteParse" /\ builderFinish = 0)

(***************************************************************************)
(* C6: BeginNested and EndNested are paired.  OpenAfter(tr, n) is the      *)
(* number of BeginNested not yet closed after the first n callbacks.       *)
(***************************************************************************)
RECURSIVE OpenAfter(_, _)
OpenAfter(tr, n) ==
  IF n = 0 THEN 0
  ELSE OpenAfter(tr, n - 1)
         + (IF tr[n].cb = "BeginNested" THEN 1 ELSE IF tr[n].cb = "EndNested" THEN -1 ELSE 0)

\* No EndNested without an earlier BeginNested still open.
NoUnmatchedEnd(tr) == \A n \in 0..Len(tr) : OpenAfter(tr, n) >= 0

Balanced(tr) == NoUnmatchedEnd(tr) /\ OpenAfter(tr, Len(tr)) = 0

\* C6 as claimed: the trace of any Parse call, whatever its outcome, is
\* bracket-balanced.
C6_PairedWhateverOutcome == (Returned /\ err.kind # "panic") => Balanced(trace)

\* C6 as amended: the trace of a Parse call that returns success is
\* bracket-balanced; at every moment, and so in the trace of a failed call
\* too, no EndNested is unmatched, and while the call runs the BeginNested
\* still open are those of the nested Parse activations in flight.
C6_PairedOnSuccess ==
  /\ NoUnmatchedEnd(trace)
  /\ (Returned /\ err = Nil) => Balanced(trace)
  /\ frames # <<>> => OpenAfter(trace, Len(trace)) = Len(frames) - 1

C6_Witness ==
  /\ Returned
  /\ err = Nil
  /\ trace = <<EvBeginNested, EvEndNested(0), EvBeginNested, EvEndNested(1)>>

(***************************************************************************)
(* C7: the field loop is at a length-prefixed field (wire type 2 or 3)     *)
(* whose tag and length decode; AtField names its parts as the bytes give  *)
(* them.                                                                   *)
(***************************************************************************)
AtField ==
  LET view == Top(remaining)
      t == DecodeVarint(view)
      body == Drop(view, t.n)
      l == DecodeVarint(body)
  IN [tagOk |-> t.err = Nil, tag |-> t.value,
      lenOk |-> t.err = Nil /\ l.err = Nil, L |-> l.value,
      after |-> IF t.err = Nil /\ l.err = Nil THEN Drop(body, l.n) ELSE <<>>]

AtLengthPrefixedField ==
  /\ InLoop
  /\ AtField.lenOk
  /\ AtField.tag % 8 \in {2, 3}

\* C7: a length-prefixed field declaring L bytes with L - 1 left fails with
\* Truncated and without a Bytes callback; with exactly L left it succeeds,
\* its payload is those L bytes and the view pushed back is empty.
C7_LengthPrefixedStep ==
  AtLengthPrefixedField =>
    LET f == AtField
        R == Len(f.after)
    IN /\ R = f.L - 1 =>
            /\ err' = Err("Truncated", f.L, R)
            /\ frames' = <<>>
            /\ \A i \in DOMAIN trace' : i > Len(trace) => trace'[i].cb # "Bytes"
       /\ R = f.L =>
            /\ err' = Nil
            /\ Len(remaining') = Len(remaining)
            /\ Top(remaining') = <<>>
            /\ IF f.tag % 8 = 3
               THEN trace' = Append(trace, EvBytes(f.tag \div 8, f.after))
               ELSE /\ Top(frames').pc = "entry"
                    /\ Top(frames').message = f.after

C7_LengthPrefixed == [][C7_LengthPrefixedStep]_vars

C7_Witness ==
  /\ Returned
  /\ err.kind = "Truncated"
  /\ err.a = err.b + 1
  /\ err.b >= 1

(***************************************************************************)
(* C8: a field whose tag has low 3 bits 1, 4, 5, 6 or 7 makes Parse return *)
(* UnknownWireType with that value, at any nesting level, and no callback  *)
(* is made for the field.                                                  *)
(***************************************************************************)
C8_UnknownWireTypeStep ==
  (InLoop /\ AtField.tagOk /\ AtField.tag % 8 \in {1, 4, 5, 6, 7})
    => /\ err' = Err("UnknownWireType", AtField.tag % 8, 0)
       /\ frames' = <<>>
       /\ trace' = trace

C8_UnknownWireType == [][C8_UnknownWireTypeStep]_vars

C8_Witness ==
  /\ Returned
  /\ err = Err("UnknownWireType", 7, 0)
  /\ Len(remaining) = 2
  /\ trace = <<EvBeginNested>>

(***************************************************************************)
(* C9: when a top-level Parse called with an empty nesting stack returns   *)
(* success, the stack is empty again, and a Finish that follows returns    *)
(* the builder's product with no error.                                    *)
(***************************************************************************)
C9_SuccessEmptiesStack ==
  (Returned /\ base = <<>> /\ err = Nil)
    => /\ remaining = <<>>
       /\ finishRet # "none" => (finishRet = "product" /\ builderFinish = 1)

C9_Witness ==
  /\ Returned
  /\ base = <<>>
  /\ err = Nil
  /\ Len(trace) >= 3
  /\ finishRet = "product"

(***************************************************************************)
(* C10: Finish with a non-empty nesting stack returns IncompleteParse,     *)
(* does not call the builder's Finish and leaves the stack as it is;       *)
(* Finish with an empty stack calls the builder's Finish once and returns  *)
(* its product.                                                            *)
(***************************************************************************)
C10_Finish ==
  finishRet # "none" =>
    IF remaining = <<>>
    THEN finishRet = "product" /\ builderFinish = 1
    ELSE finishRet = "IncompleteParse" /\ builderFinish = 0

C10_Witness ==
  /\ finishRet = "IncompleteParse"
  /\ remaining # <<>>
  /\ builderFinish = 0

(***************************************************************************)
(* C11: where a failure arises, read off the state before the step.  A     *)
(* Parse at its entry fails when its message is oversized or the stack is  *)
(* full; a field fails when its tag or its second varint does not decode,  *)
(* when its wire type is unknown, or when it declares more bytes than      *)
(* remain (lengths with the top bit set are C13's case, not an error       *)
(* return).                                                                *)
(***************************************************************************)
EntryFailure ==
  /\ frames # <<>>
  /\ Top(frames).pc = "entry"
  /\ (Len(Top(frames).message) > maxLength \/ Len(remaining) >= maxDepth)

FieldFailure ==
  /\ InLoop
  /\ LET f == AtField
     IN \/ ~f.tagOk
        \/ f.tag % 8 \notin {0, 2, 3}
        \/ ~f.lenOk
        \/ (f.tag % 8 \in {2, 3} /\ f.L > Len(f.after) /\ f.L < Pow2(UintBits - 1))

\* C11: once a failure occurs at any depth, the top-level Parse returns an
\* error in that very step: no callback follows the failure (a nested field
\* has had its BeginNested before its payload failed), no view below the
\* top one is touched, and nothing happens to trace or stack afterwards.
C11_UnwindStep ==
  /\ (EntryFailure \/ FieldFailure) =>
       /\ frames' = <<>>
       /\ err' # Nil
       /\ err'.kind # "panic"
       /\ trace' = IF FieldFailure /\ AtField.tagOk /\ AtField.tag % 8 = 2
                   THEN Append(trace, EvBeginNested)
                   ELSE trace
       /\ Len(remaining') <= Len(remaining)
       /\ \A i \in 1..Len(remaining') : i < Len(remaining) => remaining'[i] = remaining[i]
  /\ (frames = <<>> /\ frames' = <<>>) => (trace' = trace /\ remaining' = remaining)

C11_Unwind == [][C11_UnwindStep]_vars

C11_Witness ==
  /\ FirstReturned
  /\ err.kind = "VarintDecodeError"
  /\ trace = <<EvBeginNested>>
  /\ Len(remaining) = 1

(***************************************************************************)
(* C12: Parse of the empty byte sequence on a fresh parser succeeds with   *)
(* no callback and an empty stack, and the Finish that follows returns a   *)
(* product with no error.                                                  *)
(***************************************************************************)
C12_EmptyMessage ==
  (FirstReturned /\ message = <<>>)
    => /\ err = Nil
       /\ trace = <<>>
       /\ remaining = <<>>
       /\ finishRet \in {"none", "product"}
       /\ finishRet = "product" => builderFinish = 1

C12_Witness ==
  /\ FirstReturned
  /\ message = <<>>
  /\ err = Nil
  /\ trace = <<>>
  /\ finishRet = "product"

(***************************************************************************)
(* C13: for every decoded length L, those with the top bit set included,   *)
(* the length-prefixed extractor with R bytes left fails with Truncated    *)
(* when R < L and otherwise hands on a payload of exactly L bytes of the   *)
(* remainder; it never aborts.                                             *)
(***************************************************************************)
C13_ExtractorStep ==
  AtLengthPrefixedField =>
    LET f == AtField
        R == Len(f.after)
    IN /\ err'.kind # "panic"
       /\ R < f.L => (err' = Err("Truncated", f.L, R) /\ frames' = <<>>)
       /\ R >= f.L =>
            /\ err' = Nil
            /\ IF f.tag % 8 = 3
               THEN trace' = Append(trace, EvBytes(f.tag \div 8, Take(f.after, f.L)))
               ELSE Top(frames').message = Take(f.after, f.L)

C13_Extractor == [][C13_ExtractorStep]_vars

(***************************************************************************)
(* C14: termination.  Measure is a variant of the running Parse: three per *)
(* byte still to read (in the views the call has pushed and in a message   *)
(* about to be entered), two for an activation at its entry, one per       *)
(* activation.                                                             *)
(***************************************************************************)
RECURSIVE SumLen(_)
SumLen(views) == IF views = <<>> THEN 0 ELSE Len(views[1]) + SumLen(Tail(views))

IsStrictSuffix(s, t) == Len(s) < Len(t) /\ s = Drop(t, Len(t) - Len(s))

AtEntry == frames # <<>> /\ Top(frames).pc = "entry"

Measure ==
  IF frames = <<>> THEN 0
  ELSE 3 * (SumLen(Drop(remaining, Len(base)))
              + (IF AtEntry THEN Len(Top(frames).message) ELSE 0))
         + (IF AtEntry THEN 2 ELSE 0)
         + Len(frames)

\* Every step of a running Parse lowers the variant; every loop iteration
\* replaces the view it reads by a strictly shorter suffix of itself; no
\* more than maxDepth levels are open.
C14_ProgressStep ==
  frames # <<>> =>
    /\ Measure' < Measure
    /\ (InLoop /\ frames' # <<>>) =>
         IsStrictSuffix(remaining'[Len(remaining)], Top(remaining))
    /\ Len(remaining') <= maxDepth

\* C14: Parse terminates on every input, each loop iteration consuming at
\* least one byte, and every call returns success or an error.
C14_TerminatesStep ==
  /\ C14_ProgressStep
  /\ (frames # <<>> /\ frames' = <<>>) => err'.kind # "panic"

C14_Terminates == [][C14_TerminatesStep]_vars

\* C15: a Parse call, top-level or nested, that is rejected on entry reports
\* OversizedMessage when the message is too long (whatever the depth) and
\* MaxDepthExceeded otherwise, and leaves the nesting stack and the callback
\* trace exactly as they were when it was called.
C15_EntryRejectionStep ==
  AtEntry =>
    LET msg == Top(frames).message
    IN /\ Len(msg) > maxLength =>
            /\ err'.kind = "OversizedMessage"
            /\ frames' = <<>>
            /\ remaining' = remaining
            /\ trace' = trace
       /\ (Len(msg) <= maxLength /\ Len(remaining) >= maxDepth) =>
            /\ err'.kind = "MaxDepthExceeded"
            /\ frames' = <<>>
            /\ remaining' = remaining
            /\ trace' = trace
       /\ err'.kind \in {"OversizedMessage", "MaxDepthExceeded"} =>
            (remaining' = remaining /\ trace' = trace)
       /\ (Len(msg) <= maxLength /\ Len(remaining) < maxDepth) => err' = Nil

C15_EntryRejection == [][C15_EntryRejectionStep]_vars

\* A message that violates both limits was rejected as oversized.
C15_Witness ==
  /\ Returned
  /\ err.kind = "OversizedMessage"
  /\ Len(message) > maxLength
  /\ Len(base) >= maxDepth
  /\ remaining = base
  /\ trace = <<>>

(***************************************************************************)
(* C16: the frame of a Parse call.  The activation frames[i], once past    *)
(* its entry, owns the entry Len(base) + i of the nesting stack.           *)
(***************************************************************************)
IsSuffix(s, t) == Len(s) <= Len(t) /\ s = Drop(t, Len(t) - Len(s))

AtLoopExit ==
  /\ frames # <<>>
  /\ Top(frames).pc = "loop"
  /\ remaining # <<>>
  /\ Top(remaining) = <<>>

\* C16: a Parse call that succeeds pops exactly the entry it pushed and
\* returns with the stack of its entry; no step of a running call changes an
\* entry below the one the running activation pushed; a nested call is
\* entered with the enclosing view replaced by the bytes after the payload,
\* and that view is the top of the stack when the nested call returns.
C16_FrameStep ==
  frames # <<>> =>
    /\ Len(remaining) = Len(base) + Len(frames) - (IF AtEntry THEN 1 ELSE 0)
    /\ \A i \in 1..(Len(base) + Len(frames) - 1) :
         i <= Len(remaining') /\ remaining'[i] = remaining[i]
    /\ \A i \in 1..(Len(frames) - 1) :
         IsSuffix(frames[i + 1].message \o remaining[Len(base) + i], frames[i].message)
    /\ AtLoopExit =>
         /\ err' = Nil
         /\ remaining' = Pop(remaining)
         /\ Len(frames) = 1 => (frames' = <<>> /\ remaining' = base)
         /\ Len(frames) > 1 =>
              /\ Len(frames') = Len(frames) - 1
              /\ Top(frames').pc = "loop"
              /\ Len(remaining') = Len(base) + Len(frames')
              /\ IsSuffix(Top(frames).message \o Top(remaining'), Top(frames').message)
    /\ (AtLengthPrefixedField /\ AtField.tag % 8 = 2 /\ frames' # <<>>) =>
         /\ Top(frames').pc = "entry"
         /\ Top(frames').message = Take(AtField.after, AtField.L)
         /\ Len(remaining') = Len(remaining)
         /\ Top(remaining') = Drop(AtField.after, AtField.L)

C16_Frame == [][C16_FrameStep]_vars

\* A nested Parse has returned to a view that still held a field, and the
\* top-level Parse has returned with the stack of its entry.
C16_Witness ==
  /\ Returned
  /\ err = Nil
  /\ Len(trace) = 3
  /\ trace[1] = EvBeginNested
  /\ trace[2] = EvEndNested(0)
  /\ remaining = base

(***************************************************************************)
(* C17: nested messages shrink.  PushedViews are the views the running     *)
(* top-level Parse has put on the nesting stack; the views of base were    *)
(* left there by earlier calls that failed.                                *)
(***************************************************************************)
PushedViews == Drop(remaining, Len(base))

NestedShorter ==
  /\ \A i \in 2..Len(frames) : Len(frames[i].message) < Len(frames[i - 1].message)
  /\ (frames = <<>> /\ err.kind = "OversizedMessage") => Len(message) > maxLength

\* C17 as stated: every nested message is strictly shorter than the message
\* enclosing it, OversizedMessage is raised only for a top-level message
\* over maxLength, and while an accepted top-level Parse runs the lengths of
\* all views on the nesting stack add up to at most the length of its message.
C17_AllViewsBounded ==
  /\ NestedShorter
  /\ (frames # <<>> /\ Len(message) <= maxLength) => SumLen(remaining) <= Len(message)

\* C17 amended: the same, for the views the running top-level Parse pushed
\* (all the views when it started on an empty stack), the message of a
\* nested Parse about to be entered included.
C17_PushedViewsBounded ==
  /\ NestedShorter
  /\ (frames # <<>> /\ Len(message) <= maxLength) =>
       /\ SumLen(PushedViews) + (IF AtEntry /\ Len(frames) > 1 THEN Len(Top(frames).message) ELSE 0)
            <= Len(message)
       /\ base = <<>> => SumLen(remaining) <= Len(message)

\* A non-empty nested message is being read inside an accepted message.
C17_Witness ==
  /\ Len(frames) = 2
  /\ Top(frames).pc = "loop"
  /\ Top(frames).message # <<>>
  /\ Len(message) <= maxLength
  /\ SumLen(PushedViews) > 0

(***************************************************************************)
(* C18: the nesting level of the message whose field loop runs is the      *)
(* number of Parse activations, Len(frames).                               *)
(***************************************************************************)
FieldCallback(e) == e.cb \in {"Uint64", "Bytes", "EndNested"}

\* C18: within a top-level Parse started on an empty stack, the stack holds
\* exactly d entries whenever the loop of the message at level d tests its
\* condition and whenever a Uint64, Bytes or EndNested callback of one of
\* its fields is invoked; the stack is never read while empty.
C18_DepthStep ==
  (base = <<>> /\ frames # <<>>) =>
    /\ Top(frames).pc = "loop" =>
         /\ Len(remaining) = Len(frames)
         /\ remaining # <<>>
    /\ (Len(trace') = Len(trace) + 1 /\ FieldCallback(Top(trace'))) =>
         /\ frames' # <<>>
         /\ Top(frames').pc = "loop"
         /\ Len(remaining') = Len(frames')
    /\ err' # Panic

C18_Depth == [][C18_DepthStep]_vars

\* A Uint64 callback was invoked for a field of a message at level 2.
C18_Witness ==
  /\ base = <<>>
  /\ Len(frames) = 2
  /\ Top(frames).pc = "loop"
  /\ Len(remaining) = 2
  /\ trace # <<>>
  /\ Top(trace).cb = "Uint64"

====
